---- MODULE Spec2Model ----
(***************************************************************************)
(* Property marshalling, class-metadata resolution, relationship entities  *)
(* and spatial values of neomodantic:                                      *)
(*   PropertyManager     (src/neomodel/sync_/property_manager.py)          *)
(*   RelationshipMeta,                                                     *)
(*   AsyncStructuredRel  (src/neomodantic/async_/relationship.py)          *)
(*   NeomodelPoint,                                                        *)
(*   PointProperty       (src/neomodantic/contrib/spatial_properties.py)   *)
(*                                                                         *)
(* Python values are modelled as records tagged by the field t, so that    *)
(* None, user values, defaults, wire values and bound methods are all      *)
(* comparable.  Python dicts keep their insertion order and are modelled   *)
(* as sequences of <<key, value>> pairs with distinct keys.                *)
(***************************************************************************)
EXTENDS Integers, Sequences, FiniteSets, TLC

VARIABLES
    mro,        \* cls.__mro__ of the class under study, most derived first
                \* (for NeomodelPoint, the names of its classes)
    call,       \* the last operation that was invoked, with its arguments
    ret,        \* what that operation returned or raised
    inst,       \* vars(self) of the instance the last construction produced
                \* (for spatial values, the NeomodelPoint that was constructed)
    effects,    \* descriptor calls the last operation made (default_value, deflate, inflate)
    body,       \* the class body (dct) handed to RelationshipMeta.__new__; for a
                \* relationship entity, the raw edge handed to inflate
    bound       \* per class-body position: the descriptor's name/owner binding and setup() count

vars == <<mro, call, ret, inst, effects, body, bound>>

----------------------------------------------------------------------------
(* Bounds *)

\* declarations in the class bodies of one ancestry, all classes together
MaxDecls == 2

\* entries in the class body of a relationship class
MaxBody == 2

\* attribute names a class body of the schema resolver may declare
Names == {"a", "b"}

----------------------------------------------------------------------------
(* Ordered dicts *)

Keys(d) == {d[i][1] : i \in 1..Len(d)}

HasKey(d, k) == \E i \in 1..Len(d) : d[i][1] = k

Get(d, k) == d[CHOOSE i \in 1..Len(d) : d[i][1] = k][2]

\* d[k] = v : an existing key keeps its position, a new key goes last
SetItem(d, k, v) ==
    IF HasKey(d, k)
    THEN [i \in 1..Len(d) |-> IF d[i][1] = k THEN <<k, v>> ELSE d[i]]
    ELSE Append(d, <<k, v>>)

RECURSIVE Update(_, _)
\* d.update(items)
Update(d, items) ==
    IF items = <<>> THEN d
    ELSE Update(SetItem(d, Head(items)[1], Head(items)[2]), Tail(items))

Reversed(s) == [i \in 1..Len(s) |-> s[Len(s) + 1 - i]]

----------------------------------------------------------------------------
(* Descriptors *)

Kinds == {"prop", "alias", "rel"}

\* A descriptor object: a Property, an AliasProperty or a RelationshipDefinition.
\* id tells descriptor objects apart; db is the db_property override ("" when unset).
Descriptor(kind, id, required, has_default, db, choices) ==
    [kind |-> kind, id |-> id, required |-> required,
     has_default |-> has_default, db |-> db, choices |-> choices]

PlainDescriptor(kind, id) == Descriptor(kind, id, FALSE, FALSE, "", FALSE)

IsAliasProperty(d) == d.kind = "alias"

\* AliasProperty derives from Property: line 139 excludes aliases from the
\* instances of Property explicitly.
IsProperty(d) == d.kind \in {"prop", "alias"}

IsRelationshipDefinition(d) == d.kind = "rel"

----------------------------------------------------------------------------
(* Classes *)

\* A class of the ancestry: vars(baseclass) restricted to descriptors, and
\* baseclass.model_fields restricted to fields whose default is a descriptor.
\* is_model is issubclass(baseclass, BaseModel).
\* decls is the class body as written, kept to state what a class declares.
Class(is_model, decls, attrs, fields) ==
    [is_model |-> is_model, decls |-> decls, attrs |-> attrs, model_fields |-> fields]

ObjectClass == Class(FALSE, <<>>, <<>>, <<>>)

BaseModelClass == Class(TRUE, <<>>, <<>>, <<>>)

PropertyManagerClass == Class(TRUE, <<>>, <<>>, <<>>)

\* PropertyManager.__mro__
BaseMro == <<PropertyManagerClass, BaseModelClass, ObjectClass>>

\* One declaration of a class body: form is "attr" for a direct class
\* attribute and "field" for the default of a model field.
Decl(name, form, desc) == [name |-> name, form |-> form, desc |-> desc]

Forms == {"attr", "field"}

RECURSIVE DeclItems(_, _)
\* the <<name, descriptor>> pairs of the declarations of one form, in body order
DeclItems(decls, form) ==
    IF decls = <<>> THEN <<>>
    ELSE LET d == Head(decls)
             rest == DeclItems(Tail(decls), form)
         IN IF d.form = form THEN <<<<d.name, d.desc>>>> \o rest ELSE rest

RECURSIVE WithoutKeys(_, _)
WithoutKeys(d, ks) ==
    IF d = <<>> THEN <<>>
    ELSE IF Head(d)[1] \in ks THEN WithoutKeys(Tail(d), ks)
         ELSE <<Head(d)>> \o WithoutKeys(Tail(d), ks)

\* The class a class statement creates below `parent`.  A model field's default
\* is taken out of the class namespace and kept in model_fields, which also
\* holds the parent's fields; a name the body rebinds as a plain class
\* attribute is no longer a field of the new class.
NewClass(parent, decls) ==
    Class(TRUE, decls,
          DeclItems(decls, "attr"),
          Update(WithoutKeys(parent.model_fields, Keys(DeclItems(decls, "attr"))),
                 DeclItems(decls, "field")))

----------------------------------------------------------------------------
(* PropertyManager.defined_properties *)

\* the filter of the generator at lines 135-141
KeepClassAttr(property, aliases, properties, rels) ==
    \/ (aliases /\ IsAliasProperty(property))
    \/ (properties /\ IsProperty(property) /\ ~IsAliasProperty(property))
    \/ (rels /\ IsRelationshipDefinition(property))

\* the three tests of the model_fields loop, lines 147-152
KeepFieldDefault(default, aliases, properties, rels) ==
    \/ (IsRelationshipDefinition(default) /\ rels)
    \/ (IsProperty(default) /\ properties)
    \/ (IsAliasProperty(default) /\ aliases)

RECURSIVE FilterAttrs(_, _, _, _)
\* the items of vars(baseclass) the generator keeps, in order
FilterAttrs(items, aliases, properties, rels) ==
    IF items = <<>> THEN <<>>
    ELSE LET rest == FilterAttrs(Tail(items), aliases, properties, rels)
         IN IF KeepClassAttr(Head(items)[2], aliases, properties, rels)
            THEN <<Head(items)>> \o rest ELSE rest

RECURSIVE FilterFields(_, _, _, _)
\* the items of baseclass.model_fields whose default the loop assigns, in order
FilterFields(items, aliases, properties, rels) ==
    IF items = <<>> THEN <<>>
    ELSE LET rest == FilterFields(Tail(items), aliases, properties, rels)
         IN IF KeepFieldDefault(Head(items)[2], aliases, properties, rels)
            THEN <<Head(items)>> \o rest ELSE rest

\* one iteration of the loop over the ancestry, lines 131-152
MergeClass(props, baseclass, aliases, properties, rels) ==
    LET afterAttrs ==
            Update(props, FilterAttrs(baseclass.attrs, aliases, properties, rels))
    IN IF baseclass.is_model
       THEN Update(afterAttrs,
                   FilterFields(baseclass.model_fields, aliases, properties, rels))
       ELSE afterAttrs

RECURSIVE MergeAll(_, _, _, _, _)
MergeAll(props, classes, aliases, properties, rels) ==
    IF classes = <<>> THEN props
    ELSE MergeAll(MergeClass(props, Head(classes), aliases, properties, rels),
                  Tail(classes), aliases, properties, rels)

\* AncestryOrder with a fault: cls.__mro__ is scanned as it stands
AncestryMostDerivedFirst(m) == m

\* the order in which the ancestry is scanned, line 130

AncestryOrder(m) == Reversed(m)

defined_properties(m, aliases, properties, rels) ==
    MergeAll(<<>>, AncestryOrder(m), aliases, properties, rels)

----------------------------------------------------------------------------
(* Class bodies the schema resolver is run on *)

Booleans == {TRUE, FALSE}

\* orderings of distinct names
NameOrders(names) ==
    {s \in UNION {[1..n -> names] : n \in 0..Cardinality(names)} :
        \A i, j \in 1..Len(s) : i # j => s[i] # s[j]}

\* class bodies declaring plain descriptors; depth numbers the declaring class
PlainBodies(depth) ==
    UNION {{[i \in 1..Len(s) |-> Decl(s[i], f[i], PlainDescriptor(k[i], depth))] :
               f \in [1..Len(s) -> Forms], k \in [1..Len(s) -> Kinds]} :
           s \in NameOrders(Names)}

UserDepth(m) == Len(m) - Len(BaseMro)

RECURSIVE TotalDecls(_)
TotalDecls(m) == IF m = <<>> THEN 0 ELSE Len(Head(m).decls) + TotalDecls(Tail(m))

NoCall == [op |-> "none"]

NoValue == [t |-> "nothing"]

NoInstance == <<>>

----------------------------------------------------------------------------
(* Schema resolution: classes are defined one below the other and resolved *)

InitSchema ==
    /\ mro = BaseMro
    /\ call = NoCall
    /\ ret = NoValue
    /\ inst = NoInstance
    /\ effects = <<>>
    /\ body = <<>>
    /\ bound = <<>>

\* class A_{n+1}(A_n): <decls>
DefineClass ==
    /\ \E decls \in PlainBodies(UserDepth(mro) + 1) :
          /\ decls # <<>>
          /\ TotalDecls(mro) + Len(decls) <= MaxDecls
          /\ mro' = <<NewClass(Head(mro), decls)>> \o mro
    /\ call' = [op |-> "class"]
    /\ ret' = NoValue
    /\ UNCHANGED <<inst, effects, body, bound>>

\* cls.defined_properties(aliases, properties, rels) on the most derived class
Resolve ==
    /\ \E aliases \in Booleans, properties \in Booleans, rels \in Booleans :
          /\ call' = [op |-> "defined_properties", aliases |-> aliases,
                       properties |-> properties, rels |-> rels]
          /\ ret' = [t |-> "dict", items |-> defined_properties(mro, aliases, properties, rels)]
    /\ UNCHANGED <<mro, inst, effects, body, bound>>

NextSchema == DefineClass \/ Resolve

SpecSchema == InitSchema /\ [][NextSchema]_vars

----------------------------------------------------------------------------
(* What an ancestry declares *)

DeclaredIn(c, n) == \E i \in 1..Len(c.decls) : c.decls[i].name = n

DeclOf(c, n) == c.decls[CHOOSE i \in 1..Len(c.decls) : c.decls[i].name = n]

DeclaredNames(m) == {n \in Names : \E i \in 1..Len(m) : DeclaredIn(m[i], n)}

\* the declaration of n in the most derived class that declares n
\* (m is most derived first)
MostDerivedDecl(m, n) ==
    DeclOf(m[CHOOSE i \in 1..Len(m) :
                 /\ DeclaredIn(m[i], n)
                 /\ \A j \in 1..(i - 1) : ~DeclaredIn(m[j], n)], n)

Resolved == call.op = "defined_properties"

ResolvedAll == Resolved /\ call.aliases /\ call.properties /\ call.rels

----------------------------------------------------------------------------
(* Claims on schema resolution *)

\* C1: defined_properties(C) with its default flags maps every name that some
\* class of the ancestry declares, as a class attribute or as a model-field
\* default, to the descriptor of the most derived class declaring it, and
\* holds no other name.
C1_MostDerivedWins ==
    ResolvedAll =>
        /\ Keys(ret.items) = DeclaredNames(mro)
        /\ \A n \in DeclaredNames(mro) :
               Get(ret.items, n) = MostDerivedDecl(mro, n).desc

\* a subclass overrode, in the other declaration form, a name its parent declares
C1_Witness ==
    /\ ResolvedAll
    /\ \E n \in Names :
          /\ UserDepth(mro) >= 2
          /\ DeclaredIn(mro[1], n) /\ DeclaredIn(mro[2], n)
          /\ DeclOf(mro[1], n).form # DeclOf(mro[2], n).form
          /\ DeclOf(mro[1], n).desc # DeclOf(mro[2], n).desc
          /\ Get(ret.items, n) = DeclOf(mro[1], n).desc

ResultOfKind(k) == \E i \in 1..Len(ret.items) : ret.items[i][2].kind = k

\* C10: each flag filters its descriptor kind: aliases=False leaves no
\* AliasProperty in the result, properties=False no non-alias Property,
\* rels=False no relationship definition, in both declaration forms.
C10_FlagsFilterKinds ==
    Resolved =>
        /\ (~call.aliases => ~ResultOfKind("alias"))
        /\ (~call.properties => ~ResultOfKind("prop"))
        /\ (~call.rels => ~ResultOfKind("rel"))

----------------------------------------------------------------------------
(* RelationshipMeta.__new__ *)

\* keys a relationship class body may bind
BodyKeys == {"source", "target", "id", "element_id", "weight"}

\* One entry of dct.  value is "prop" for a Property instance, "alias" for an
\* AliasProperty instance and "other" for anything else; has_setup tells
\* whether the value has a callable setup attribute.
BodyEntry(key, value, has_setup) == [key |-> key, value |-> value, has_setup |-> has_setup]

\* issubclass(value.__class__, Property), line 13
IsPropertyValue(value) == value \in {"prop", "alias"}

BodyValues ==
    {[value |-> "prop", has_setup |-> FALSE], [value |-> "prop", has_setup |-> TRUE],
     [value |-> "alias", has_setup |-> FALSE], [value |-> "other", has_setup |-> FALSE]}

KeyOrders ==
    {s \in UNION {[1..n -> BodyKeys] : n \in 0..MaxBody} :
        \A i, j \in 1..Len(s) : i # j => s[i] # s[j]}

ClassBodies ==
    UNION {{[i \in 1..Len(s) |-> BodyEntry(s[i], v[i].value, v[i].has_setup)] :
               v \in [1..Len(s) -> BodyValues]} :
           s \in KeyOrders}

\* what the metaclass has done to the descriptor at one position of the body
Unbound == [name |-> "", owner |-> FALSE, setups |-> 0]

\* IsReservedName with a fault: the element_id branch is missing
ReservedWithoutElementId(key) == key \in {"source", "target", "id"}

\* the names lines 14-31 reject

IsReservedName(key) == key \in {"source", "target", "id", "element_id"}

RECURSIVE MetaLoop(_, _, _)
\* the loop of lines 12-37 from position i on; b is the binding state so far
MetaLoop(dct, i, b) ==
    IF i > Len(dct) THEN [t |-> "class", bound |-> b]
    ELSE IF ~IsPropertyValue(dct[i].value) THEN MetaLoop(dct, i + 1, b)
    ELSE IF IsReservedName(dct[i].key)
         THEN [t |-> "raise", exc |-> "ValueError", key |-> dct[i].key, bound |-> b]
    ELSE MetaLoop(dct, i + 1,
                  [b EXCEPT ![i] = [name |-> dct[i].key, owner |-> TRUE,
                                    setups |-> IF dct[i].has_setup THEN @.setups + 1
                                               ELSE @.setups]])

RelationshipMetaNew(dct) == MetaLoop(dct, 1, [i \in 1..Len(dct) |-> Unbound])

\* a class statement with any body is about to run
InitMeta ==
    /\ mro = BaseMro
    /\ call = NoCall
    /\ ret = NoValue
    /\ inst = NoInstance
    /\ effects = <<>>
    /\ body \in ClassBodies
    /\ bound = [i \in 1..Len(body) |-> Unbound]

\* class R(AsyncStructuredRel): <body>
DefineRelClass ==
    /\ call = NoCall
    /\ LET r == RelationshipMetaNew(body)
       IN /\ bound' = r.bound
          /\ ret' = IF r.t = "class" THEN [t |-> "class"]
                    ELSE [t |-> "raise", exc |-> r.exc, key |-> r.key]
    /\ call' = [op |-> "rel_class"]
    /\ UNCHANGED <<mro, inst, effects, body>>

NextMeta == DefineRelClass

SpecMeta == InitMeta /\ [][NextMeta]_vars

HasReservedProperty(dct) ==
    \E i \in 1..Len(dct) :
        dct[i].value \in {"prop", "alias"} /\
        dct[i].key \in {"source", "target", "id", "element_id"}

\* C2: a relationship class body holding a Property under the name source,
\* target, id or element_id is rejected by RelationshipMeta.__new__ whatever
\* else the body holds, and a body without such a name is accepted.
C2_ReservedNamesRejected ==
    call.op = "rel_class" =>
        /\ (HasReservedProperty(body) => ret.t = "raise" /\ ret.exc = "ValueError")
        /\ (~HasReservedProperty(body) => ret.t = "class")

\* a body whose reserved name comes after another property was rejected
C2_Witness ==
    /\ call.op = "rel_class"
    /\ Len(body) = 2
    /\ body[1].value = "prop" /\ body[1].key = "weight"
    /\ body[2].value = "prop" /\ body[2].key = "element_id"
    /\ ret.t = "raise"

----------------------------------------------------------------------------
(* Python values and the descriptor contract *)

None == [t |-> "None"]

\* an application value; "bad" is a value the descriptor's deflate rejects
Val(v) == [t |-> "val", v |-> v]

\* a database value: the wire form of an application value, or malformed data
Wire(value) == [t |-> "wire", of |-> value]

Junk == [t |-> "junk"]

\* the descriptor object itself, as pydantic stores a field's default
DescriptorValue(d) == [t |-> "descriptor", d |-> d]

\* the bound method types.MethodType(display_for(name), self), lines 37-41
DisplayMethod(name) == [t |-> "method", of |-> name]

DisplayName(name) == "get_" \o name \o "_display"

\* property.default_value(): the k-th call made by the running operation
\* returns its own object
default_value(name, k) == [t |-> "default", of |-> name, call |-> k]

\* property.get_db_property_name(name)
get_db_property_name(property, name) == IF property.db = "" THEN name ELSE property.db

\* property.deflate(value, obj): validates, then converts to the wire form
\* (PointProperty.deflate raises on a value it does not accept and returns the
\* database point otherwise)
PropertyDeflate(property, value) ==
    IF value = Val("bad") THEN [t |-> "raise", exc |-> "DeflateError"]
    ELSE [t |-> "ok", value |-> Wire(value)]

\* property.inflate(wire, entity): fails on malformed wire data and returns
\* the application value otherwise, never None (as PointProperty.inflate)
PropertyInflate(property, wire) ==
    IF wire.t = "wire" THEN [t |-> "ok", value |-> wire.of]
    ELSE [t |-> "raise", exc |-> "InflateError"]

----------------------------------------------------------------------------
(* Python dicts keyed by strings whose order does not matter: kwargs, bags,
   graph entities, vars(self) *)

Put(f, k, v) == [x \in (DOMAIN f) \cup {k} |-> IF x = k THEN v ELSE f[x]]

Del(f, k) == [x \in (DOMAIN f) \ {k} |-> f[x]]

\* f.get(k)
GetOrNone(f, k) == IF k \in DOMAIN f THEN f[k] ELSE None

\* f.update(g)
Merge(f, g) == [x \in (DOMAIN f) \cup (DOMAIN g) |-> IF x \in DOMAIN g THEN g[x] ELSE f[x]]

EmptyDict == [x \in {} |-> None]

\* all dicts with keys among ks and values among vs
Dicts(ks, vs) == UNION {[sub -> vs] : sub \in SUBSET ks}

----------------------------------------------------------------------------
(* PropertyManager.__init__ *)

\* super().__init__(**kwargs) of a model with extra='allow': every keyword
\* becomes an attribute, and a model field without a keyword gets its default
BaseModelInit(m, kwargs) ==
    LET fields == Head(m).model_fields
    IN Merge([n \in Keys(fields) |-> DescriptorValue(Get(fields, n))], kwargs)

\* InitProperty with a fault: a property without keyword and default gets a
\* marker of its own instead of None
InitPropertyMarkingUnset(st, name, property) ==
    LET kw == st.kwargs
        n == Len(st.effects) + 1
        assigned ==
            IF GetOrNone(kw, name) = None
            THEN IF property.has_default
                 THEN [st EXCEPT !.self = Put(@, name, default_value(name, n)),
                                 !.effects = Append(@, [f |-> "default_value", name |-> name])]
                 ELSE [st EXCEPT !.self = Put(@, name, IF name \in DOMAIN kw THEN None
                                                       ELSE [t |-> "unset"])]
            ELSE [st EXCEPT !.self = Put(@, name, kw[name])]
        displayed ==
            IF property.choices
            THEN [assigned EXCEPT !.self = Put(@, DisplayName(name), DisplayMethod(name))]
            ELSE assigned
    IN [displayed EXCEPT !.kwargs = Del(@, name)]

\* InitProperty with a fault: a property without keyword and default is left unset
InitPropertyLeavingUnset(st, name, property) ==
    LET kw == st.kwargs
        hasDefault == property.has_default
        n == Len(st.effects) + 1
        assigned ==
            IF GetOrNone(kw, name) = None
            THEN IF hasDefault
                 THEN [st EXCEPT !.self = Put(@, name, default_value(name, n)),
                                 !.effects = Append(@, [f |-> "default_value", name |-> name])]
                 ELSE st
            ELSE [st EXCEPT !.self = Put(@, name, kw[name])]
    IN [assigned EXCEPT !.kwargs = Del(@, name)]

\* InitProperty with a fault: a keyword value is passed through the descriptor's deflate
InitPropertyDeflating(st, name, property) ==
    LET kw == st.kwargs
        n == Len(st.effects) + 1
    IN IF GetOrNone(kw, name) = None
       THEN IF property.has_default
            THEN [st EXCEPT !.self = Put(@, name, default_value(name, n)),
                            !.effects = Append(@, [f |-> "default_value", name |-> name]),
                            !.kwargs = Del(@, name)]
            ELSE [st EXCEPT !.self = Put(@, name, None), !.kwargs = Del(@, name)]
       ELSE [st EXCEPT !.self = Put(@, name, kw[name]),
                       !.effects = Append(@, [f |-> "deflate", name |-> name]),
                       !.kwargs = Del(@, name)]

\* one iteration of the loop of lines 27-44; st holds self, kwargs and the
\* descriptor calls made so far
InitProperty(st, name, property) ==
    LET kw == st.kwargs
        n == Len(st.effects) + 1
        assigned ==
            IF GetOrNone(kw, name) = None
            THEN IF property.has_default
                 THEN [st EXCEPT !.self = Put(@, name, default_value(name, n)),
                                 !.effects = Append(@, [f |-> "default_value", name |-> name])]
                 ELSE [st EXCEPT !.self = Put(@, name, None)]
            ELSE [st EXCEPT !.self = Put(@, name, kw[name])]
        displayed ==
            IF property.choices
            THEN [assigned EXCEPT !.self = Put(@, DisplayName(name), DisplayMethod(name))]
            ELSE assigned
    IN [displayed EXCEPT !.kwargs = Del(@, name)]

RECURSIVE InitProperties(_, _)
\* the loop of lines 27-44
InitProperties(st, items) ==
    IF items = <<>> THEN st
    ELSE InitProperties(InitProperty(st, Head(items)[1], Head(items)[2]), Tail(items))

RECURSIVE InitAliases(_, _)
\* the loop of lines 51-54
InitAliases(st, items) ==
    IF items = <<>> THEN st
    ELSE LET name == Head(items)[1]
         IN InitAliases(IF name \in DOMAIN st.kwargs
                        THEN [st EXCEPT !.self = Put(@, name, st.kwargs[name]),
                                        !.kwargs = Del(@, name)]
                        ELSE st,
                        Tail(items))

\* cls(**kwargs), lines 21-58, for a class without __all_properties__ and
\* __all_aliases__; eff are the descriptor calls the caller made before
PropertyManagerInit(m, kwargs, eff) ==
    LET st0 == [self |-> BaseModelInit(m, kwargs), kwargs |-> kwargs, effects |-> eff]
        st1 == InitProperties(st0, defined_properties(m, FALSE, TRUE, FALSE))
        st2 == InitAliases(st1, defined_properties(m, TRUE, FALSE, FALSE))
    IN [self |-> Merge(st2.self, st2.kwargs), effects |-> st2.effects]

----------------------------------------------------------------------------
(* PropertyManager.deflate *)

\* the class deflate was called on, as RequiredProperty carries it
ThisClass == "cls"

\* the key of line 91
DeflateKey(property, name) == get_db_property_name(property, name)

\* DeflateProperty with a fault: skip_empty is not honoured
DeflatePropertyNeverSkipping(st, properties, skip_empty, name, property) ==
    LET db_property == DeflateKey(property, name)
        n == Len(st.effects) + 1
    IN IF GetOrNone(properties, name) # None
       THEN LET r == PropertyDeflate(property, properties[name])
            IN IF r.t = "raise" THEN [st EXCEPT !.raised = [t |-> "raise", exc |-> r.exc, name |-> name]]
               ELSE [st EXCEPT !.deflated = SetItem(@, db_property, r.value)]
       ELSE IF property.has_default
       THEN [st EXCEPT !.deflated = SetItem(@, db_property, Wire(default_value(name, n)))]
       ELSE IF property.required
       THEN [st EXCEPT !.raised = [t |-> "raise", exc |-> "RequiredProperty",
                                   name |-> name, cls |-> ThisClass]]
       ELSE [st EXCEPT !.deflated = SetItem(@, db_property, None)]

\* DeflateProperty with a fault: required is tested before has_default
DeflatePropertyRequiredFirst(st, properties, skip_empty, name, property) ==
    LET db_property == DeflateKey(property, name)
        n == Len(st.effects) + 1
    IN IF GetOrNone(properties, name) # None
       THEN LET r == PropertyDeflate(property, properties[name])
            IN IF r.t = "raise" THEN [st EXCEPT !.raised = [t |-> "raise", exc |-> r.exc, name |-> name]]
               ELSE [st EXCEPT !.deflated = SetItem(@, db_property, r.value)]
       ELSE IF property.required
       THEN [st EXCEPT !.raised = [t |-> "raise", exc |-> "RequiredProperty",
                                   name |-> name, cls |-> ThisClass]]
       ELSE IF property.has_default
       THEN [st EXCEPT !.deflated = SetItem(@, db_property, Wire(default_value(name, n)))]
       ELSE IF ~skip_empty
       THEN [st EXCEPT !.deflated = SetItem(@, db_property, None)]
       ELSE st

\* DeflateProperty with a fault: required is never tested
DeflatePropertyNotRequiring(st, properties, skip_empty, name, property) ==
    LET db_property == DeflateKey(property, name)
        n == Len(st.effects) + 1
    IN IF GetOrNone(properties, name) # None
       THEN LET r == PropertyDeflate(property, properties[name])
            IN IF r.t = "raise" THEN [st EXCEPT !.raised = [t |-> "raise", exc |-> r.exc, name |-> name]]
               ELSE [st EXCEPT !.deflated = SetItem(@, db_property, r.value)]
       ELSE IF property.has_default
       THEN [st EXCEPT !.deflated = SetItem(@, db_property, Wire(default_value(name, n)))]
       ELSE IF ~skip_empty
       THEN [st EXCEPT !.deflated = SetItem(@, db_property, None)]
       ELSE st

\* one iteration of the loop of lines 90-99; st holds the dict built so far,
\* the descriptor calls made so far and the exception raised, if any
DeflateProperty(st, properties, skip_empty, name, property) ==
    LET db_property == DeflateKey(property, name)
        n == Len(st.effects) + 1
    IN IF GetOrNone(properties, name) # None
       THEN LET r == PropertyDeflate(property, properties[name])
                called == [st EXCEPT !.effects = Append(@, [f |-> "deflate", name |-> name])]
            IN IF r.t = "raise"
               THEN [called EXCEPT !.raised = [t |-> "raise", exc |-> r.exc, name |-> name]]
               ELSE [called EXCEPT !.deflated = SetItem(@, db_property, r.value)]
       ELSE IF property.has_default
       THEN LET dv == default_value(name, n)
                r == PropertyDeflate(property, dv)
            IN [st EXCEPT !.effects = @ \o <<[f |-> "default_value", name |-> name],
                                             [f |-> "deflate", name |-> name]>>,
                          !.deflated = SetItem(@, db_property, r.value)]
       ELSE IF property.required
       THEN [st EXCEPT !.raised = [t |-> "raise", exc |-> "RequiredProperty",
                                   name |-> name, cls |-> ThisClass]]
       ELSE IF ~skip_empty
       THEN [st EXCEPT !.deflated = SetItem(@, db_property, None)]
       ELSE st

NotRaised == [t |-> "no exception"]

RECURSIVE DeflateLoop(_, _, _, _)
\* the loop of lines 90-99: an exception ends it
DeflateLoop(st, properties, skip_empty, items) ==
    IF items = <<>> \/ st.raised # NotRaised THEN st
    ELSE DeflateLoop(DeflateProperty(st, properties, skip_empty, Head(items)[1], Head(items)[2]),
                     properties, skip_empty, Tail(items))

\* cls.deflate(properties, obj, skip_empty), lines 78-100
PropertyManagerDeflate(m, properties, skip_empty) ==
    LET st == DeflateLoop([deflated |-> <<>>, effects |-> <<>>, raised |-> NotRaised],
                          properties, skip_empty, defined_properties(m, FALSE, TRUE, FALSE))
    IN IF st.raised # NotRaised
       THEN [ret |-> st.raised, effects |-> st.effects]
       ELSE [ret |-> [t |-> "dict", items |-> st.deflated], effects |-> st.effects]

----------------------------------------------------------------------------
(* PropertyManager.inflate *)

\* InflateKey with a fault: the entity is read under the attribute name
AttributeNameAsEntityKey(property, name) == name

\* the key of line 112
InflateKey(property, name) == get_db_property_name(property, name)

\* one iteration of the loop of lines 111-120
InflateProperty(st, graph_entity, name, property) ==
    LET db_property == InflateKey(property, name)
        n == Len(st.effects) + 1
    IN IF db_property \in DOMAIN graph_entity
       THEN LET r == PropertyInflate(property, graph_entity[db_property])
                called == [st EXCEPT !.effects = Append(@, [f |-> "inflate", name |-> name])]
            IN IF r.t = "raise"
               THEN [called EXCEPT !.raised = [t |-> "raise", exc |-> r.exc, name |-> name]]
               ELSE [called EXCEPT !.inflated = Put(@, name, r.value)]
       ELSE IF property.has_default
       THEN [st EXCEPT !.effects = Append(@, [f |-> "default_value", name |-> name]),
                       !.inflated = Put(@, name, default_value(name, n))]
       ELSE [st EXCEPT !.inflated = Put(@, name, None)]

RECURSIVE InflateLoop(_, _, _)
InflateLoop(st, graph_entity, items) ==
    IF items = <<>> \/ st.raised # NotRaised THEN st
    ELSE InflateLoop(InflateProperty(st, graph_entity, Head(items)[1], Head(items)[2]),
                     graph_entity, Tail(items))

\* cls.inflate(graph_entity), lines 102-121
PropertyManagerInflate(m, graph_entity) ==
    LET st == InflateLoop([inflated |-> EmptyDict, effects |-> <<>>, raised |-> NotRaised],
                          graph_entity, defined_properties(m, FALSE, TRUE, FALSE))
    IN IF st.raised # NotRaised
       THEN [ret |-> st.raised, self |-> NoInstance, effects |-> st.effects]
       ELSE LET made == PropertyManagerInit(m, st.inflated, st.effects)
            IN [ret |-> [t |-> "instance"], self |-> made.self, effects |-> made.effects]

----------------------------------------------------------------------------
(* Classes and inputs the PropertyManager operations are run on *)

\* attribute names of the class under study
PMNames == {"a", "b"}

\* db_property overrides; "" is no override
DbNames == {"", "w"}

\* what a class body may bind a name to: any Property (as a class attribute),
\* an AliasProperty in either declaration form, a relationship definition
PMDecls(name) ==
    {Decl(name, "attr", Descriptor("prop", 1, r, hd, db, ch)) :
        r \in Booleans, hd \in Booleans, db \in DbNames, ch \in Booleans}
    \cup {Decl(name, f, PlainDescriptor("alias", 1)) : f \in Forms}
    \cup {Decl(name, "attr", PlainDescriptor("rel", 1))}

PMBodies ==
    UNION {{d \in [1..Len(s) -> UNION {PMDecls(n) : n \in PMNames}] :
               \A i \in 1..Len(s) : d[i].name = s[i]} :
           s \in NameOrders(PMNames)}

\* dicts over the keys ks whose value at key k is one of vs(k)
KeyedDicts(ks, vs(_)) ==
    UNION {{f \in [sub -> UNION {vs(k) : k \in sub}] : \A k \in sub : f[k] \in vs(k)} :
           sub \in SUBSET ks}

KwargValues(k) == {None, Val(k)}

BagValues(k) == {None, Val(k), Val("bad")}

EntityKeys == PMNames \cup (DbNames \ {""})

EntityValues(k) == {Wire(Val(k)), Junk}

InitPM ==
    /\ mro \in {<<NewClass(PropertyManagerClass, decls)>> \o BaseMro : decls \in PMBodies}
    /\ call = NoCall
    /\ ret = NoValue
    /\ inst = NoInstance
    /\ effects = <<>>
    /\ body = <<>>
    /\ bound = <<>>

\* cls(**kwargs)
Construct ==
    /\ call = NoCall
    /\ \E kwargs \in KeyedDicts(PMNames, KwargValues) :
          LET made == PropertyManagerInit(mro, kwargs, <<>>)
          IN /\ call' = [op |-> "construct", kwargs |-> kwargs]
             /\ ret' = [t |-> "instance"]
             /\ inst' = made.self
             /\ effects' = made.effects
    /\ UNCHANGED <<mro, body, bound>>

\* cls.deflate(properties, skip_empty=skip_empty)
Deflate ==
    /\ call = NoCall
    /\ \E properties \in KeyedDicts(PMNames, BagValues), skip_empty \in Booleans :
          LET r == PropertyManagerDeflate(mro, properties, skip_empty)
          IN /\ call' = [op |-> "deflate", properties |-> properties, skip_empty |-> skip_empty]
             /\ ret' = r.ret
             /\ effects' = r.effects
    /\ UNCHANGED <<mro, inst, body, bound>>

\* cls.inflate(graph_entity)
Inflate ==
    /\ call = NoCall
    /\ \E graph_entity \in KeyedDicts(EntityKeys, EntityValues) :
          LET r == PropertyManagerInflate(mro, graph_entity)
          IN /\ call' = [op |-> "inflate", graph_entity |-> graph_entity]
             /\ ret' = r.ret
             /\ inst' = r.self
             /\ effects' = r.effects
    /\ UNCHANGED <<mro, body, bound>>

NextPM == Construct \/ Deflate \/ Inflate

SpecPM == InitPM /\ [][NextPM]_vars

----------------------------------------------------------------------------
(* The schema of the class under study, read off its declarations *)

\* names whose most derived declaration is a Property that is no alias
PropertyNames == {n \in DeclaredNames(mro) : MostDerivedDecl(mro, n).desc.kind = "prop"}

PropertyOf(n) == MostDerivedDecl(mro, n).desc

WireName(n) == IF PropertyOf(n).db = "" THEN n ELSE PropertyOf(n).db

\* the descriptors the operations iterate over, in iteration order
Schema == defined_properties(mro, FALSE, TRUE, FALSE)

SchemaIndex(n) == CHOOSE i \in 1..Len(Schema) : Schema[i][1] = n

SchemaWireName(i) == get_db_property_name(Schema[i][2], Schema[i][1])

\* no other entry of the schema has the wire name of n
WireNameUnshared(n) ==
    \A i \in 1..Len(Schema) : Schema[i][1] # n => SchemaWireName(i) # WireName(n)

Deflated == call.op = "deflate"

Constructed == call.op = "construct"

Inflated == call.op = "inflate"

Unset(bag, n) == GetOrNone(bag, n) = None

----------------------------------------------------------------------------
(* Claims on deflate *)

\* properties that are required, have no default and have no value in the bag
MissingRequired ==
    {n \in PropertyNames :
        /\ PropertyOf(n).required /\ ~PropertyOf(n).has_default
        /\ Unset(call.properties, n)}

FirstMissingRequired ==
    CHOOSE n \in MissingRequired :
        \A o \in MissingRequired : SchemaIndex(n) <= SchemaIndex(o)

EmptyOptional ==
    {n \in PropertyNames :
        /\ ~PropertyOf(n).required /\ ~PropertyOf(n).has_default
        /\ Unset(call.properties, n)}

OmittedOrNone(n) ==
    IF call.skip_empty THEN ~HasKey(ret.items, WireName(n))
    ELSE HasKey(ret.items, WireName(n)) /\ Get(ret.items, WireName(n)) = None

\* C4 as stated: for a property that is not required, has no default and is
\* missing or None in the bag, the mapping deflate returns lacks its wire name
\* under skip_empty=True and maps its wire name to None under skip_empty=False.
C4_EmptyOmittedOrNone ==
    (Deflated /\ ret.t = "dict") => \A n \in EmptyOptional : OmittedOrNone(n)

\* C4 amended: the same, for a property whose wire name no other resolved
\* property shares.
C4_EmptyOmittedOrNoneUnsharedWireName ==
    (Deflated /\ ret.t = "dict") =>
        \A n \in EmptyOptional : WireNameUnshared(n) => OmittedOrNone(n)

\* skip_empty=True left out the renamed, unset property and kept the other one
C4_Witness ==
    /\ Deflated /\ ret.t = "dict" /\ call.skip_empty
    /\ \E n \in EmptyOptional :
          /\ WireName(n) # n /\ WireNameUnshared(n)
          /\ ~HasKey(ret.items, WireName(n))
          /\ ret.items # <<>>

\* properties with both required and has_default set
RequiredWithDefault ==
    {n \in PropertyNames : PropertyOf(n).required /\ PropertyOf(n).has_default}

DefaultAtConstruction ==
    Constructed =>
        \A n \in RequiredWithDefault :
            Unset(call.kwargs, n) => (inst[n].t = "default" /\ inst[n].of = n)

\* C5 as stated: for a descriptor with both required and has_default set,
\* construction without the property assigns the default, and deflate of a bag
\* without the property fails with a required-property error.
C5_DefaultThenRequiredError ==
    /\ DefaultAtConstruction
    /\ Deflated =>
          \A n \in RequiredWithDefault :
              Unset(call.properties, n) =>
                  (ret.t = "raise" /\ ret.exc = "RequiredProperty")

\* C5 amended: construction without the property assigns the default, and
\* deflate of a bag without the property never raises a required-property error
\* for it: the mapping it returns holds the deflated default under the wire
\* name (unless another resolved property shares that wire name).
C5_DefaultWinsAtDeflateToo ==
    /\ DefaultAtConstruction
    /\ Deflated =>
          \A n \in RequiredWithDefault :
              Unset(call.properties, n) =>
                  /\ ~(ret.t = "raise" /\ ret.exc = "RequiredProperty" /\ ret.name = n)
                  /\ (ret.t = "dict" /\ WireNameUnshared(n)) =>
                        /\ HasKey(ret.items, WireName(n))
                        /\ Get(ret.items, WireName(n)).t = "wire"
                        /\ Get(ret.items, WireName(n)).of.t = "default"
                        /\ Get(ret.items, WireName(n)).of.of = n

\* deflate of an empty bag returned the default of a required property
C5_Witness ==
    /\ Deflated /\ ret.t = "dict" /\ call.properties = EmptyDict
    /\ \E n \in RequiredWithDefault :
          /\ HasKey(ret.items, WireName(n))
          /\ Get(ret.items, WireName(n)).t = "wire"
          /\ Get(ret.items, WireName(n)).of.t = "default"

\* names declared as alias or relationship definition
NonPropertyNames == DeclaredNames(mro) \ PropertyNames

\* C9 as stated: the keys of a mapping deflate returns are wire names of the
\* class's properties; an attribute name with a different db_name, an alias, a
\* relationship definition or a bag entry without schema entry is never a key;
\* every property with a non-None bag value appears under its wire name with the
\* descriptor's deflation of that value.
C9_KeysAreWireNames ==
    (Deflated /\ ret.t = "dict") =>
        /\ Keys(ret.items) \subseteq {WireName(n) : n \in PropertyNames}
        /\ \A n \in PropertyNames : WireName(n) # n => ~HasKey(ret.items, n)
        /\ \A n \in NonPropertyNames : ~HasKey(ret.items, n)
        /\ \A n \in (DOMAIN call.properties) \ DeclaredNames(mro) : ~HasKey(ret.items, n)
        /\ \A n \in PropertyNames :
              ~Unset(call.properties, n) =>
                  /\ HasKey(ret.items, WireName(n))
                  /\ Get(ret.items, WireName(n)) =
                        PropertyDeflate(PropertyOf(n), call.properties[n]).value

----------------------------------------------------------------------------
(* Claims on construction and inflate *)

\* C6: after construction, direct or through inflate, every name of the
\* class's resolved property schema is an attribute of the instance.
C6_AllPropertiesPresent ==
    ((Constructed \/ Inflated) /\ ret.t = "instance") =>
        /\ PropertyNames \subseteq DOMAIN inst
        /\ Keys(Schema) \subseteq DOMAIN inst

\* an instance built without any keyword holds None for a property without default
C6_Witness ==
    /\ Constructed /\ call.kwargs = EmptyDict
    /\ \E n \in PropertyNames : ~PropertyOf(n).has_default /\ inst[n] = None
    /\ \E n \in PropertyNames : PropertyOf(n).has_default /\ inst[n].t = "default"

\* the value is the result of a default_value() call this operation made on
\* the descriptor of n, and no other attribute holds that result
FreshDefault(n) ==
    /\ inst[n].t = "default" /\ inst[n].of = n
    /\ inst[n].call \in 1..Len(effects)
    /\ effects[inst[n].call] = [f |-> "default_value", name |-> n]
    /\ \A o \in (DOMAIN inst) \ {n} : inst[o] # inst[n]

\* C7: at construction a property whose keyword is absent or None and whose
\* descriptor has a default holds a fresh default_value() result, a property
\* whose keyword is not None holds that value verbatim, and no descriptor is
\* asked to deflate or validate anything.
C7_DefaultOrVerbatim ==
    Constructed =>
        /\ \A i \in 1..Len(Schema) :
              LET n == Schema[i][1]
                  d == Schema[i][2]
              IN /\ (Unset(call.kwargs, n) /\ d.has_default) => FreshDefault(n)
                 /\ ~Unset(call.kwargs, n) => inst[n] = call.kwargs[n]
        /\ \A k \in 1..Len(effects) : effects[k].f = "default_value"

\* two properties, one defaulted and one given by keyword
C7_Witness ==
    /\ Constructed
    /\ \E n, o \in PropertyNames :
          /\ PropertyOf(n).has_default /\ Unset(call.kwargs, n) /\ inst[n].t = "default"
          /\ ~Unset(call.kwargs, o) /\ inst[o] = call.kwargs[o]

\* C8: the instance inflate returns holds, under each property's attribute
\* name, the descriptor's inflation of the entity's value at the wire name when
\* the entity has the wire name, else the materialized default when the
\* descriptor has one, else None.
C8_InflatedDefaultOrNone ==
    (Inflated /\ ret.t = "instance") =>
        \A n \in PropertyNames :
            IF WireName(n) \in DOMAIN call.graph_entity
            THEN inst[n] = PropertyInflate(PropertyOf(n), call.graph_entity[WireName(n)]).value
            ELSE IF PropertyOf(n).has_default THEN FreshDefault(n)
            ELSE inst[n] = None

\* a renamed property was read from its wire name while the entity also holds
\* a value under the attribute name of another, absent property
C8_Witness ==
    /\ Inflated /\ ret.t = "instance"
    /\ \E n, o \in PropertyNames :
          /\ WireName(n) # n /\ WireName(n) \in DOMAIN call.graph_entity
          /\ n \notin DOMAIN call.graph_entity
          /\ inst[n] = call.graph_entity[WireName(n)].of
          /\ WireName(o) \notin DOMAIN call.graph_entity
          /\ PropertyOf(o).has_default /\ inst[o].t = "default"

----------------------------------------------------------------------------
(* Spatial values: NeomodelPoint and PointProperty                         *)
(*   (src/neomodantic/contrib/spatial_properties.py)                       *)
(*                                                                         *)
(* A NeomodelPoint is the record [t |-> "point", crs, coords]; a plain     *)
(* shapely Point carries coords only; a neo4j.spatial point carries its    *)
(* class, its srid and its coordinates.  Keyword arguments are None or     *)
(* Val(v).                                                                 *)

\* the longest coordinate tuple handed to the constructor
MaxArity == 4

ACCEPTABLE_CRS == {"cartesian", "cartesian-3d", "wgs-84", "wgs-84-3d"}

SRID_TO_CRS ==
    (7203 :> "cartesian") @@ (9157 :> "cartesian-3d") @@
    (4326 :> "wgs-84") @@ (4979 :> "wgs-84-3d")

\* the module defines NeomodelPoint twice and the installed shapely picks one:
\* class NeomodelPoint(ShapelyPoint) below 2.0.0, class NeomodelPoint otherwise
PointMros == {<<"NeomodelPoint", "ShapelyPoint", "object">>, <<"NeomodelPoint", "object">>}

Shapely2 == Len(mro) = 2

IsNone(v) == v.t = "None"

Raise(exc, msg) == [t |-> "raise", exc |-> exc, msg |-> msg]

NeomodelPoint(crs, coords) == [t |-> "point", crs |-> crs, coords |-> coords]

ShapelyPoint(coords) == [t |-> "shapely", coords |-> coords]

TupleArg(items) == [t |-> "tuple", items |-> items]

\* "-3d" in crs
Is3d(crs) == crs \in {"cartesian-3d", "wgs-84-3d"}

\* crs.startswith("cartesian")
IsCartesian(crs) == crs \in {"cartesian", "cartesian-3d"}


\* float(v) of a number is that number
Float(v) == v.v

\* CopyConstructor with a fault: an explicit crs replaces the crs of the source
CopyConstructorTakingExplicitCrs(src, crs) ==
    IF ~IsNone(crs) THEN NeomodelPoint(crs.v, src.coords)
    ELSE IF src.t = "point" THEN NeomodelPoint(src.crs, src.coords)
    ELSE NeomodelPoint(IF Len(src.coords) = 2 THEN "cartesian" ELSE "cartesian-3d", src.coords)

\* the copy-constructor branch: args[0] is a NeomodelPoint or a shapely Point
CopyConstructor(src, crs) ==
    IF src.t = "point"
    THEN NeomodelPoint(src.crs, src.coords)
    ELSE IF Len(src.coords) = 2
         THEN NeomodelPoint(IF IsNone(crs) THEN "cartesian" ELSE crs.v, src.coords)
    ELSE IF Len(src.coords) = 3
         THEN NeomodelPoint(IF IsNone(crs) THEN "cartesian-3d" ELSE crs.v, src.coords)
    ELSE Raise("ValueError", "Invalid vector dimensions")

\* the last step of __init__: build the geometry when crs and arity agree
BuildGeometry(crs, cx, cy, cz) ==
    IF IsNone(cz)
    THEN IF IsNone(crs) THEN Raise("TypeError", "argument of type NoneType is not iterable")
         ELSE IF Is3d(crs.v) THEN Raise("ValueError", "Invalid vector dimensions(2)")
         ELSE IF IsNone(cx) \/ IsNone(cy) THEN Raise("TypeError", "float() argument")
         ELSE NeomodelPoint(crs.v, <<Float(cx), Float(cy)>>)
    ELSE IF Is3d(crs.v)
         THEN NeomodelPoint(crs.v, <<Float(cx), Float(cy), Float(cz)>>)
         ELSE Raise("ValueError", "Invalid vector dimensions(3)")

\* initialisation by x, y[, z] or by longitude, latitude[, height]
NamedInit(crs, x, y, z, longitude, latitude, height) ==
    IF (\E i \in {x, y, z} : ~IsNone(i)) /\ (\E i \in {latitude, longitude, height} : ~IsNone(i))
    THEN Raise("ValueError", "Invalid instantiation via arguments")
    ELSE IF \A i \in {x, y, z, latitude, longitude, height} : IsNone(i)
    THEN Raise("ValueError", "Invalid instantiation via no arguments")
    ELSE LET geo  == ~IsNone(latitude) /\ ~IsNone(longitude)
             cart == ~IsNone(x) /\ ~IsNone(y)
             third == IF geo THEN height ELSE IF cart THEN z ELSE None
             inferred == IF geo THEN (IF IsNone(height) THEN "wgs-84" ELSE "wgs-84-3d")
                         ELSE (IF IsNone(z) THEN "cartesian" ELSE "cartesian-3d")
             crs1 == IF (geo \/ cart) /\ IsNone(crs) THEN Val(inferred) ELSE crs
             cx == IF cart THEN x ELSE IF geo THEN longitude ELSE None
             cy == IF cart THEN y ELSE IF geo THEN latitude ELSE None
         IN BuildGeometry(crs1, cx, cy, third)

\* NeomodelPoint(*args, **kwargs); args holds at most one positional argument
NeomodelPointInit(args, kw) ==
    IF ~IsNone(kw.crs) /\ kw.crs.v \notin ACCEPTABLE_CRS
    THEN Raise("ValueError", "Invalid CRS")
    ELSE IF Len(args) = 0
    THEN NamedInit(kw.crs, kw.x, kw.y, kw.z, kw.longitude, kw.latitude, kw.height)
    ELSE IF args[1].t = "tuple"
    THEN LET items == args[1].items
         IN IF Len(items) < 2 \/ Len(items) > 3
            THEN Raise("ValueError", "Invalid vector dimensions")
            ELSE NamedInit(kw.crs, Val(items[1]), Val(items[2]),
                           IF Len(items) = 3 THEN Val(items[3]) ELSE kw.z,
                           kw.longitude, kw.latitude, kw.height)
    ELSE IF args[1].t \in {"point", "shapely"}
    THEN CopyConstructor(args[1], kw.crs)
    ELSE Raise("TypeError", "Invalid object passed to copy constructor")

\* the coordinate of the underlying geometry: _shapely_point.x, .y, .z
GeometryAxis(p, i) ==
    IF i <= Len(p.coords) THEN Val(p.coords[i])
    ELSE Raise("DimensionError", "This point has no z coordinate")

\* the error an accessor raises for a crs outside its family
AccessorError(axis) ==
    Raise(IF Shapely2 THEN "TypeError" ELSE "AttributeError", "Invalid coordinate " \o axis)

Axes == {"x", "y", "z", "latitude", "longitude", "height"}

\* AxisGate with a fault: height is open to every geographic point
AxisGateOpenHeight(axis) ==
    CASE axis \in {"x", "y"} -> {"cartesian", "cartesian-3d"}
      [] axis = "z" -> {"cartesian-3d"}
      [] axis \in {"latitude", "longitude", "height"} -> {"wgs-84", "wgs-84-3d"}

\* the crs tags for which the accessor gives a coordinate
AxisGate(axis) ==
    CASE axis \in {"x", "y"} -> {"cartesian", "cartesian-3d"}
      [] axis = "z" -> {"cartesian-3d"}
      [] axis \in {"latitude", "longitude"} -> {"wgs-84", "wgs-84-3d"}
      [] axis = "height" -> {"wgs-84-3d"}

AxisIndex(axis) ==
    CASE axis \in {"x", "longitude"} -> 1
      [] axis \in {"y", "latitude"} -> 2
      [] axis \in {"z", "height"} -> 3

\* the properties x, y, z, latitude, longitude, height
Accessor(p, axis) ==
    IF p.crs \notin AxisGate(axis) THEN AccessorError(axis)
    ELSE GeometryAxis(p, AxisIndex(axis))

\* neo4j.spatial points: the srid follows from the class and the arity
WirePoint(cls, srid, coords) == [t |-> "wire_point", cls |-> cls, srid |-> srid, coords |-> coords]

CartesianPoint(coords) ==
    WirePoint("CartesianPoint",
              IF Len(coords) = 2 THEN Val(7203) ELSE IF Len(coords) = 3 THEN Val(9157) ELSE None,
              coords)

WGS84Point(coords) ==
    WirePoint("WGS84Point",
              IF Len(coords) = 2 THEN Val(4326) ELSE IF Len(coords) = 3 THEN Val(4979) ELSE None,
              coords)

Kwargs(crs, x, y, z, longitude, latitude, height) ==
    [crs |-> crs, x |-> x, y |-> y, z |-> z,
     longitude |-> longitude, latitude |-> latitude, height |-> height]

\* value.x, value.y, value.z alias value.longitude, value.latitude, value.height
WireAxis(value, i) == Val(value.coords[i])

\* InflateBySrid with a fault: a geographic point is read as latitude, longitude
InflateBySridLatitudeFirst(srid, value) ==
    CASE srid = 7203 ->
           NeomodelPointInit(<<>>, Kwargs(None, WireAxis(value, 1), WireAxis(value, 2), None,
                                          None, None, None))
      [] srid = 9157 ->
           NeomodelPointInit(<<>>, Kwargs(None, WireAxis(value, 1), WireAxis(value, 2),
                                          WireAxis(value, 3), None, None, None))
      [] srid = 4326 ->
           NeomodelPointInit(<<>>, Kwargs(None, None, None, None,
                                          WireAxis(value, 2), WireAxis(value, 1), None))
      [] srid = 4979 ->
           NeomodelPointInit(<<>>, Kwargs(None, None, None, None,
                                          WireAxis(value, 2), WireAxis(value, 1),
                                          WireAxis(value, 3)))

\* the constructor call inflate makes for a wire point of the given srid
InflateBySrid(srid, value) ==
    CASE srid = 7203 ->
           NeomodelPointInit(<<>>, Kwargs(None, WireAxis(value, 1), WireAxis(value, 2), None,
                                          None, None, None))
      [] srid = 9157 ->
           NeomodelPointInit(<<>>, Kwargs(None, WireAxis(value, 1), WireAxis(value, 2),
                                          WireAxis(value, 3), None, None, None))
      [] srid = 4326 ->
           NeomodelPointInit(<<>>, Kwargs(None, None, None, None,
                                          WireAxis(value, 1), WireAxis(value, 2), None))
      [] srid = 4979 ->
           NeomodelPointInit(<<>>, Kwargs(None, None, None, None,
                                          WireAxis(value, 1), WireAxis(value, 2),
                                          WireAxis(value, 3)))

\* CrsMismatch with a fault: only the family of the coordinate system is compared
CrsMismatchByFamily(crs, value_point_crs) == IsCartesian(crs) # IsCartesian(value_point_crs)

\* the comparison of the wire point's coordinate system against the property's
CrsMismatch(crs, value_point_crs) == crs # value_point_crs

\* PointProperty(crs=crs).inflate(value)
PointPropertyInflate(crs, value) ==
    IF value.t # "wire_point"
    THEN Raise("TypeError", "Invalid datatype to inflate")
    ELSE IF IsNone(value.srid) \/ value.srid.v \notin DOMAIN SRID_TO_CRS
    THEN Raise("ValueError", "Invalid SRID to inflate")
    ELSE IF CrsMismatch(crs, SRID_TO_CRS[value.srid.v])
    THEN Raise("ValueError", "Invalid CRS")
    ELSE InflateBySrid(value.srid.v, value)

\* the tuple of accessor results handed to the neo4j point class
AxisTuple(value, axes) == [i \in 1..Len(axes) |-> Accessor(value, axes[i])]

FirstRaised(rs) == rs[CHOOSE i \in 1..Len(rs) : rs[i].t = "raise" /\ \A j \in 1..(i - 1) : rs[j].t # "raise"]

Values(rs) == [i \in 1..Len(rs) |-> rs[i].v]

\* PointProperty(crs=crs).deflate(value)
PointPropertyDeflate(crs, value) ==
    IF value.t # "point"
    THEN Raise("TypeError", "Invalid datatype to deflate")
    ELSE IF value.crs # crs
    THEN Raise("ValueError", "Invalid CRS")
    ELSE LET axes == CASE value.crs = "cartesian-3d" -> <<"x", "y", "z">>
                       [] value.crs = "cartesian" -> <<"x", "y">>
                       [] value.crs = "wgs-84" -> <<"longitude", "latitude">>
                       [] value.crs = "wgs-84-3d" -> <<"longitude", "latitude", "height">>
             rs == AxisTuple(value, axes)
         IN IF \E i \in 1..Len(rs) : rs[i].t = "raise" THEN FirstRaised(rs)
            ELSE IF IsCartesian(value.crs) THEN CartesianPoint(Values(rs))
            ELSE WGS84Point(Values(rs))

----------------------------------------------------------------------------
(* Points are constructed, read, copied and marshalled *)

\* the values given by name, one per axis so that a swap of axes shows
NamedValue == [x |-> 0, y |-> 2, z |-> 3, longitude |-> 4, latitude |-> 5, height |-> 6]

Optional(v) == {None, Val(v)}

CrsArguments == {None} \cup {Val(c) : c \in ACCEPTABLE_CRS} \cup {Val("epsg-3857")}

KeywordArguments ==
    {Kwargs(crs, x, y, z, longitude, latitude, height) :
        crs \in CrsArguments,
        x \in Optional(NamedValue.x), y \in Optional(NamedValue.y), z \in Optional(NamedValue.z),
        longitude \in Optional(NamedValue.longitude),
        latitude \in Optional(NamedValue.latitude),
        height \in Optional(NamedValue.height)}

CoordinateTuple(n) == [i \in 1..n |-> 6 + i]

PositionalArguments ==
    {<<>>, <<Junk>>}
    \cup {<<TupleArg(CoordinateTuple(n))>> : n \in 0..MaxArity}
    \cup {<<ShapelyPoint(CoordinateTuple(n))>> : n \in 2..3}

WireCoordinates(n) == [i \in 1..n |-> 20 + i]

WireValues ==
    {Junk, WirePoint("Point", Val(3857), WireCoordinates(2)), WirePoint("Point", None, WireCoordinates(2))}
    \cup {CartesianPoint(WireCoordinates(n)) : n \in 1..3}
    \cup {WGS84Point(WireCoordinates(n)) : n \in 2..3}

InitPoint ==
    /\ mro \in PointMros
    /\ call = NoCall
    /\ ret = NoValue
    /\ inst = NoInstance
    /\ effects = <<>>
    /\ body = <<>>
    /\ bound = <<>>

HoldsPoint == inst # NoInstance

\* p = NeomodelPoint(*args, **kwargs)
NewPoint ==
    /\ call = NoCall
    /\ \E args \in PositionalArguments, kw \in KeywordArguments :
          LET r == NeomodelPointInit(args, kw)
          IN /\ call' = [op |-> "NeomodelPoint", args |-> args, kw |-> kw]
             /\ ret' = r
             /\ inst' = IF r.t = "point" THEN r ELSE inst
    /\ UNCHANGED <<mro, effects, body, bound>>

\* NeomodelPoint(p, crs=crs), copy.copy(p), copy.deepcopy(p)
CopyPoint ==
    /\ HoldsPoint
    /\ \/ \E crs \in CrsArguments :
             /\ call' = [op |-> "copy_constructor", crs |-> crs]
             /\ ret' = NeomodelPointInit(<<inst>>, Kwargs(crs, None, None, None, None, None, None))
       \/ \E how \in {"__copy__", "__deepcopy__"} :
             /\ call' = [op |-> how]
             /\ ret' = NeomodelPointInit(<<inst>>, Kwargs(None, None, None, None, None, None, None))
    /\ UNCHANGED <<mro, inst, effects, body, bound>>

\* p.x, p.y, p.z, p.latitude, p.longitude, p.height
Access ==
    /\ HoldsPoint
    /\ \E axis \in Axes :
          /\ call' = [op |-> "accessor", axis |-> axis]
          /\ ret' = Accessor(inst, axis)
    /\ UNCHANGED <<mro, inst, effects, body, bound>>

\* PointProperty(crs=crs).deflate(p)
PointDeflate ==
    /\ HoldsPoint
    /\ \E crs \in ACCEPTABLE_CRS, value \in {inst, Junk} :
          /\ call' = [op |-> "point_deflate", crs |-> crs, value |-> value]
          /\ ret' = PointPropertyDeflate(crs, value)
    /\ UNCHANGED <<mro, inst, effects, body, bound>>

\* PointProperty(crs=crs).inflate(value), of the wire value just deflated or of any other
PointInflate ==
    /\ HoldsPoint
    /\ \E crs \in ACCEPTABLE_CRS,
          value \in WireValues
                    \cup (IF call.op = "point_deflate" /\ ret.t = "wire_point" THEN {ret} ELSE {}) :
          /\ call' = [op |-> "point_inflate", crs |-> crs, value |-> value]
          /\ ret' = PointPropertyInflate(crs, value)
    /\ UNCHANGED <<mro, inst, effects, body, bound>>

NextPoint == NewPoint \/ CopyPoint \/ Access \/ PointDeflate \/ PointInflate

SpecPoint == InitPoint /\ [][NextPoint]_vars

----------------------------------------------------------------------------
(* Claims about spatial values *)

\* the crs is one of the four tags and its dimensionality is the coordinate count
ValidPoint(p) ==
    /\ p.t = "point"
    /\ p.crs \in ACCEPTABLE_CRS
    /\ Len(p.coords) = IF Is3d(p.crs) THEN 3 ELSE 2

SamePoint(p, q) == p.t = "point" /\ q.t = "point" /\ p.crs = q.crs /\ p.coords = q.coords

\* C11: for each of the four crs tags c and every valid point v of crs c,
\* inflating by PointProperty(crs=c) the wire value that PointProperty(crs=c)
\* deflated v to returns a point with the crs of v and the coordinates of v in
\* the same axis order.
C11_RoundTrip ==
    [][(/\ call.op = "point_deflate" /\ call.value = inst /\ call.crs = inst.crs
        /\ ValidPoint(inst)
        /\ call'.op = "point_inflate" /\ call'.crs = call.crs /\ call'.value = ret)
       => SamePoint(ret', inst)]_vars

\* a geographic point with a height went to the wire and came back as itself
C11_Witness ==
    /\ HoldsPoint /\ ValidPoint(inst) /\ inst.crs = "wgs-84-3d"
    /\ call.op = "point_inflate" /\ call.crs = inst.crs
    /\ call.value = PointPropertyDeflate(inst.crs, inst)
    /\ call.value.t = "wire_point" /\ call.value.srid = Val(4979)
    /\ SamePoint(ret, inst)

PointInflated == call.op = "point_inflate" /\ call.value.t = "wire_point"

KnownSrid(value) == ~IsNone(value.srid) /\ value.srid.v \in {7203, 9157, 4326, 4979}

\* C12: PointProperty(crs=c).inflate of a wire point whose srid maps to another
\* crs fails with the crs-mismatch error, of a wire point whose srid is none of
\* 7203, 9157, 4326, 4979 fails with the invalid-srid error, and a point that
\* inflate returns has crs c.
C12_OnlyOwnCrsInflates ==
    PointInflated =>
        /\ ~KnownSrid(call.value) => ret = Raise("ValueError", "Invalid SRID to inflate")
        /\ (KnownSrid(call.value) /\ SRID_TO_CRS[call.value.srid.v] # call.crs)
              => ret = Raise("ValueError", "Invalid CRS")
        /\ ret.t # "raise" => (ret.t = "point" /\ ret.crs = call.crs)

\* a wgs-84 property was given a wire point tagged with the cartesian srid
C12_Witness ==
    /\ PointInflated /\ call.crs = "wgs-84" /\ call.value.srid = Val(7203)
    /\ ret = Raise("ValueError", "Invalid CRS")

\* the accessors that the claim opens for each crs
GatedAxes(crs) ==
    CASE crs = "cartesian" -> {"x", "y"}
      [] crs = "cartesian-3d" -> {"x", "y", "z"}
      [] crs = "wgs-84" -> {"latitude", "longitude"}
      [] crs = "wgs-84-3d" -> {"latitude", "longitude", "height"}

Accessed == call.op = "accessor"

\* C13: x and y give a coordinate only on cartesian and cartesian-3d points, z
\* only on cartesian-3d, latitude and longitude only on wgs-84 and wgs-84-3d,
\* height only on wgs-84-3d; every other accessor/crs combination raises the
\* accessor's error and gives no value, and on a point whose arity agrees with
\* its crs an open accessor gives the coordinate of its axis.
C13_AccessorsGatedByCrs ==
    Accessed =>
        /\ ret.t = "val" => call.axis \in GatedAxes(inst.crs)
        /\ call.axis \notin GatedAxes(inst.crs)
              => (ret.t = "raise" /\ ret.exc = IF Shapely2 THEN "TypeError" ELSE "AttributeError")
        /\ (call.axis \in GatedAxes(inst.crs) /\ ValidPoint(inst))
              => ret = Val(inst.coords[AxisIndex(call.axis)])

\* NeomodelPoint(x=0, y=2).latitude raised
C13_Witness ==
    /\ Accessed /\ inst = NeomodelPoint("cartesian", <<NamedValue.x, NamedValue.y>>)
    /\ call.axis = "latitude" /\ ret.t = "raise"

\* C14: every point that NeomodelPoint(...) returns, by whichever construction
\* path, has one of the four crs tags and as many coordinates as the tag's
\* dimensionality (2 for cartesian and wgs-84, 3 for cartesian-3d and wgs-84-3d).
C14_CrsAgreesWithArity ==
    (call.op \in {"NeomodelPoint", "copy_constructor", "__copy__", "__deepcopy__"} /\ ret.t = "point")
        => ValidPoint(ret)

Copied == call.op \in {"copy_constructor", "__copy__", "__deepcopy__"}

AcceptedCrsArgument(crs) == IsNone(crs) \/ crs.v \in ACCEPTABLE_CRS

\* C20: NeomodelPoint(p) with or without a crs argument, copy.copy(p) and
\* copy.deepcopy(p) give a point with the crs and the coordinates of p; the copy
\* constructor applied to a plain geometry point gives its coordinates under
\* the crs argument when there is one, else under cartesian for 2 coordinates
\* and cartesian-3d for 3.
C20_CopyKeepsCrsAndCoordinates ==
    /\ (Copied /\ (call.op = "copy_constructor" => AcceptedCrsArgument(call.crs)))
          => SamePoint(ret, inst)
    /\ (call.op = "NeomodelPoint" /\ Len(call.args) = 1 /\ call.args[1].t = "shapely"
        /\ AcceptedCrsArgument(call.kw.crs))
          => /\ ret.t = "point"
             /\ ret.coords = call.args[1].coords
             /\ ret.crs = IF ~IsNone(call.kw.crs) THEN call.kw.crs.v
                          ELSE IF Len(call.args[1].coords) = 2 THEN "cartesian"
                          ELSE "cartesian-3d"

\* a point was copy-constructed with a crs argument other than its own crs
C20_Witness ==
    /\ call.op = "copy_constructor" /\ ~IsNone(call.crs)
    /\ call.crs.v \in ACCEPTABLE_CRS /\ call.crs.v # inst.crs
    /\ SamePoint(ret, inst)

----------------------------------------------------------------------------
(* Relationship entities: AsyncStructuredRel                                *)
(*   (src/neomodantic/async_/relationship.py, lines 44-160)                *)
(*                                                                         *)
(* The entity inherits construction, deflate, inflate and __properties__   *)
(* from the property manager modelled above.  save, start_node and         *)
(* end_node are coroutines: each await hands one request to the database   *)
(* collaborator adb and suspends until the reply.  call holds the frame of *)
(* the running coroutine (its position pc, its locals and the requests in  *)
(* flight), effects the descriptor calls and requests of the current call  *)
(* in the order they were made.                                            *)

ELEMENT_ID_MIGRATION_NOTICE ==
    "id is deprecated in Neo4j version 5, please migrate to element_id. If you use the id in a Cypher query, replace id() by elementId()."

\* the identity facets as stored on the instance
FacetOfElementId == "element_id_property"

FacetOfStartNode == "_start_node_element_id_property"

FacetOfEndNode == "_end_node_element_id_property"

Facets == {FacetOfElementId, FacetOfStartNode, FacetOfEndNode}

\* int(s) of the element identifiers that are decimal numerals
IntOfNumeral == ("10" :> 10) @@ ("20" :> 20) @@ ("30" :> 30)

\* hasattr(self, name)
HasAttr(self, name) == name \in DOMAIN self

\* the properties element_id, _start_node_element_id, _end_node_element_id:
\* a facet that was never set reads as None
ElementIdOf(self, facet) == IF HasAttr(self, facet) THEN self[facet] ELSE None

\* the properties id, _start_node_id, _end_node_id: int() of the stored facet,
\* with TypeError and ValueError turned into the migration error; the read of
\* a facet that was never set raises AttributeError outside the except clause
LegacyIdOf(self, facet) ==
    IF ~HasAttr(self, facet)
    THEN Raise("AttributeError", facet)
    ELSE IF IsNone(self[facet]) \/ self[facet].v \notin DOMAIN IntOfNumeral
    THEN Raise("ValueError", ELEMENT_ID_MIGRATION_NOTICE)
    ELSE Val(IntOfNumeral[self[facet].v])

\* an attribute name with a leading underscore that a class may declare
PrivateName == "_p"

\* name.startswith("_"), for the names an instance holds
StartsWithUnderscore(name) == name \in {FacetOfStartNode, FacetOfEndNode, PrivateName}

\* a function object, as an application may assign it to an attribute
Function == [t |-> "function"]

\* callable(value)
Callable(value) == value.t \in {"method", "function"}

\* self.__properties__, property_manager.py lines 60-76
Properties(self) ==
    LET kept == {name \in DOMAIN self :
                    /\ ~StartsWithUnderscore(name)
                    /\ ~Callable(self[name])
                    /\ ~(self[name].t = "descriptor" /\ self[name].d.kind \in {"alias", "rel"})}
    IN [name \in kept |-> self[name]]

\* a raw edge of the driver: its own identifier, those of its endpoints, its properties
RawEdge(element_id, start, end, entity) ==
    [element_id |-> element_id, start_node |-> [element_id |-> start],
     end_node |-> [element_id |-> end], entity |-> entity]

\* CaptureIdentity with a fault: the endpoints are taken the other way round
CaptureIdentityReversed(self, rel) ==
    Put(Put(Put(self, FacetOfStartNode, rel.end_node.element_id),
            FacetOfEndNode, rel.start_node.element_id),
        FacetOfElementId, rel.element_id)

\* the three assignments of lines 157-159
CaptureIdentity(self, rel) ==
    Put(Put(Put(self, FacetOfStartNode, rel.start_node.element_id),
            FacetOfEndNode, rel.end_node.element_id),
        FacetOfElementId, rel.element_id)

\* cls.inflate(rel), lines 149-160
StructuredRelInflate(m, rel) ==
    LET r == PropertyManagerInflate(m, rel.entity)
    IN IF r.ret.t = "raise" THEN r
       ELSE [r EXCEPT !.self = CaptureIdentity(@, rel)]

\* requests to the collaborator
Request(f, arg) == [f |-> f, arg |-> arg]

\* what adb.parse_element_id makes of an element identifier
Parsed(element_id) == [t |-> "parsed", of |-> element_id]

IdMethods == {"id", "elementId"}

\* Statement with a fault: save sets only the first key of the deflated mapping
StatementSettingFirstKeyOnly(op, id_method, props) ==
    IF op = "save"
    THEN [match |-> "()-[r]->()", where |-> <<id_method, "r", "self">>,
          set |-> [i \in 1..(IF props = <<>> THEN 0 ELSE 1) |-> <<"r." \o props[i][1], props[i][1]>>],
          return |-> ""]
    ELSE [match |-> "(aNode)",
          where |-> <<id_method, "aNode",
                      IF op = "start_node" THEN "start_node_element_id" ELSE "end_node_element_id">>,
          set |-> <<>>, return |-> "aNode"]

\* the statement of save (lines 99-100) and of start_node / end_node (lines
\* 114-118, 135-139): what is matched, by which id function and parameter,
\* and the SET clauses in order
Statement(op, id_method, props) ==
    IF op = "save"
    THEN [match |-> "()-[r]->()", where |-> <<id_method, "r", "self">>,
          set |-> [i \in 1..Len(props) |-> <<"r." \o props[i][1], props[i][1]>>],
          return |-> ""]
    ELSE [match |-> "(aNode)",
          where |-> <<id_method, "aNode",
                      IF op = "start_node" THEN "start_node_element_id" ELSE "end_node_element_id">>,
          set |-> <<>>, return |-> "aNode"]

\* the facet whose parsed value is the parameter of the statement
FacetOfOp(op) ==
    CASE op = "save" -> FacetOfElementId
      [] op = "start_node" -> FacetOfStartNode
      [] op = "end_node" -> FacetOfEndNode

\* the parameter name under which the parsed identifier is passed
ParameterOfOp(op) ==
    CASE op = "save" -> "self"
      [] op = "start_node" -> "start_node_element_id"
      [] op = "end_node" -> "end_node_element_id"

\* the frame of a call: a finished call has pc "done" and nothing in flight
Frame(op, pc, pending, props, query) ==
    [op |-> op, pc |-> pc, pending |-> pending, props |-> props, query |-> query,
     results |-> NoValue]

\* what a step leaves behind: the frame, the value returned or raised so far,
\* the calls and requests made so far
Step(frame, returned, made) == [call |-> frame, ret |-> returned, effects |-> made]

\* the first await of save, start_node and end_node: adb.get_id_method()
AwaitIdMethod(op, props, made) ==
    LET request == Request("get_id_method", None)
    IN Step(Frame(op, "get_id_method", <<request>>, props, NoValue),
            NoValue, Append(made, request))

\* BeginSave with a fault: a failed deflate is swallowed and the save goes on
BeginSaveSwallowingError(m, self) ==
    LET d == PropertyManagerDeflate(m, Properties(self), FALSE)
    IN AwaitIdMethod("save", IF d.ret.t = "raise" THEN <<>> ELSE d.ret.items, d.effects)

\* save up to its first await, line 98: props = self.deflate(self.__properties__)
BeginSave(m, self) ==
    LET d == PropertyManagerDeflate(m, Properties(self), FALSE)
    IN IF d.ret.t = "raise"
       THEN Step(Frame("save", "done", <<>>, <<>>, NoValue), d.ret, d.effects)
       ELSE AwaitIdMethod("save", d.ret.items, d.effects)

\* results[0][0][0]
FirstCell(results) ==
    IF results[1] = <<>> THEN Raise("IndexError", "list index out of range")
    ELSE results[1][1][1]

\* the coroutine resumes with the reply to the request it awaits and runs to
\* its next await or to its return
Resume(frame, self, made, reply) ==
    CASE frame.pc = "get_id_method" ->
           LET request == Request("parse_element_id", ElementIdOf(self, FacetOfOp(frame.op)))
           IN Step([frame EXCEPT !.pc = "parse_element_id",
                                 !.pending = Append(Tail(@), request),
                                 !.query = Statement(frame.op, reply, frame.props)],
                   NoValue, Append(made, request))
      [] frame.pc = "parse_element_id" ->
           LET params == SetItem(frame.props, ParameterOfOp(frame.op), reply)
               request == Request("cypher_query", [query |-> frame.query, params |-> params])
           IN Step([frame EXCEPT !.pc = "cypher_query",
                                 !.pending = Append(Tail(@), request),
                                 !.props = params],
                   NoValue, Append(made, request))
      [] frame.pc = "cypher_query" ->
           Step([frame EXCEPT !.pc = "done", !.pending = Tail(@), !.results = reply],
                IF frame.op = "save" THEN [t |-> "self"] ELSE FirstCell(reply),
                made)

\* the replies the collaborator may give to a request
Replies(request) ==
    CASE request.f = "get_id_method" -> IdMethods
      [] request.f = "parse_element_id" -> {Parsed(request.arg)}
      [] request.f = "cypher_query" ->
           {<<rows, <<"aNode">>>> :
               rows \in {<<>>, <<<<Val("n1")>>>>, <<<<Val("n1"), Val("m1")>>, <<Val("n2"), Val("m2")>>>>}}

----------------------------------------------------------------------------
(* Relationship entities are built, read, saved and followed *)

RelClasses ==
    {<<NewClass(PropertyManagerClass, decls)>> \o BaseMro :
        decls \in {<<Decl("a", "attr", Descriptor("prop", 1, r, hd, "", FALSE))>> \o rest :
                      r \in Booleans, hd \in Booleans,
                      rest \in {<<>>} \cup {<<Decl("b", "attr", Descriptor("prop", 1, FALSE, FALSE, db, FALSE))>> :
                                              db \in {"", "self"}}}}

RelKwargValues(k) == IF k = "a" THEN {None, Val("a"), Val("bad")} ELSE {Val(k)}

RelEntityValues(k) == {Wire(Val(k)), Junk}

RawEdges ==
    {RawEdge(r, e1, e2, entity) :
        r \in {None, Val("30"), Val("5:r:30")},
        e1 \in {Val("10"), Val("4:n:10")},
        e2 \in {Val("20"), Val("4:n:20")},
        entity \in KeyedDicts({"a"}, RelEntityValues)}

NoEdge == <<>>

InitRel ==
    /\ mro \in RelClasses
    /\ call = NoCall
    /\ ret = NoValue
    /\ inst = NoInstance
    /\ effects = <<>>
    /\ body = NoEdge
    /\ bound = <<>>

HoldsEntity == inst # NoInstance

Idle == call # NoCall /\ call.pc = "done"

\* rel = cls(**kwargs): no identity facet is set
ConstructRel ==
    /\ call = NoCall
    /\ \E kwargs \in KeyedDicts({"a", "b"}, RelKwargValues) :
          LET made == PropertyManagerInit(mro, kwargs, <<>>)
          IN /\ call' = Frame("construct", "done", <<>>, <<>>, NoValue)
             /\ ret' = [t |-> "instance"]
             /\ inst' = made.self
             /\ effects' = made.effects
    /\ UNCHANGED <<mro, body, bound>>

\* rel = cls.inflate(raw edge)
InflateRel ==
    /\ call = NoCall
    /\ \E rel \in RawEdges :
          LET r == StructuredRelInflate(mro, rel)
          IN /\ call' = Frame("inflate", "done", <<>>, <<>>, NoValue)
             /\ ret' = r.ret
             /\ inst' = r.self
             /\ effects' = r.effects
             /\ body' = rel
    /\ UNCHANGED <<mro, bound>>

\* rel.element_id, rel._start_node_element_id, rel._end_node_element_id
ReadElementId ==
    /\ Idle /\ HoldsEntity
    /\ \E facet \in Facets :
          /\ call' = [Frame("element_id", "done", <<>>, <<>>, NoValue) EXCEPT !.results = facet]
          /\ ret' = ElementIdOf(inst, facet)
    /\ effects' = <<>>
    /\ UNCHANGED <<mro, inst, body, bound>>

\* rel.id, rel._start_node_id, rel._end_node_id
ReadLegacyId ==
    /\ Idle /\ HoldsEntity
    /\ \E facet \in Facets :
          /\ call' = [Frame("id", "done", <<>>, <<>>, NoValue) EXCEPT !.results = facet]
          /\ ret' = LegacyIdOf(inst, facet)
    /\ effects' = <<>>
    /\ UNCHANGED <<mro, inst, body, bound>>

\* await rel.save() is entered
Save ==
    /\ Idle /\ HoldsEntity
    /\ LET s == BeginSave(mro, inst)
       IN call' = s.call /\ ret' = s.ret /\ effects' = s.effects
    /\ UNCHANGED <<mro, inst, body, bound>>

\* await rel.start_node() or await rel.end_node() is entered
FollowNode ==
    /\ Idle /\ HoldsEntity
    /\ \E op \in {"start_node", "end_node"} :
          LET s == AwaitIdMethod(op, <<>>, <<>>)
          IN call' = s.call /\ ret' = s.ret /\ effects' = s.effects
    /\ UNCHANGED <<mro, inst, body, bound>>

\* the collaborator answers the request in flight and the coroutine resumes
Reply ==
    /\ call # NoCall /\ call.pending # <<>>
    /\ \E reply \in Replies(Head(call.pending)) :
          LET s == Resume(call, inst, effects, reply)
          IN call' = s.call /\ ret' = s.ret /\ effects' = s.effects
    /\ UNCHANGED <<mro, inst, body, bound>>

\* the collaborator fails the request in flight: the error leaves the coroutine
Fail ==
    /\ call # NoCall /\ call.pending # <<>>
    /\ call' = [call EXCEPT !.pc = "done", !.pending = Tail(@)]
    /\ ret' = Raise("CollaboratorError", Head(call.pending).f)
    /\ UNCHANGED <<mro, inst, effects, body, bound>>

NextRel ==
    ConstructRel \/ InflateRel \/ ReadElementId \/ ReadLegacyId \/ Save \/ FollowNode
    \/ Reply \/ Fail

SpecRel == InitRel /\ [][NextRel]_vars

----------------------------------------------------------------------------
(* Claims about relationship entities *)

IsQuery(e) == e.f = "cypher_query"

IsRequest(e) == e.f \in {"get_id_method", "parse_element_id", "cypher_query"}

\* the cypher_query requests of the current call, in order
Queries == SelectSeq(effects, IsQuery)

\* the current call was not failed by the collaborator
Unfailed == ~(ret.t = "raise" /\ ret.exc = "CollaboratorError")

\* the current call got as far as its cypher_query
ReachedQuery == call.pc = "cypher_query" \/ (call.pc = "done" /\ Unfailed)

\* the identifier of the raw edge that a facet was captured from
RawIdentity(rel, facet) ==
    CASE facet = FacetOfElementId -> rel.element_id
      [] facet = FacetOfStartNode -> rel.start_node.element_id
      [] facet = FacetOfEndNode -> rel.end_node.element_id

FromRawEdge == body # NoEdge /\ HoldsEntity

\* C15: on an entity inflated from a raw edge with identifier R1 and endpoints
\* E1, E2, element_id is R1, _start_node_element_id is E1 and
\* _end_node_element_id is E2 (as stored and as read); a call of start_node()
\* issues no second cypher_query and, unless the collaborator fails it before,
\* exactly one, whose only parameter is the parsed E1 (E2 for end_node()); the
\* call returns the first column of the first row of that query's result.
C15_InflatedIdentityDrivesLookups ==
    FromRawEdge =>
        /\ \A facet \in Facets : ElementIdOf(inst, facet) = RawIdentity(body, facet)
        /\ call.op = "element_id" => ret = RawIdentity(body, call.results)
        /\ call.op \in {"start_node", "end_node"} =>
              /\ Len(Queries) <= 1
              /\ ReachedQuery => Len(Queries) = 1
              /\ Len(Queries) = 1 =>
                    Queries[1].arg.params =
                        <<<<ParameterOfOp(call.op), Parsed(RawIdentity(body, FacetOfOp(call.op)))>>>>
              /\ (call.pc = "done" /\ Unfailed /\ call.results[1] # <<>>)
                    => ret = call.results[1][1][1]

\* start_node() of an entity inflated from an edge with non-numeric identifiers
\* returned the first cell of a result of two rows and two columns
C15_Witness ==
    /\ FromRawEdge /\ call.op = "start_node" /\ call.pc = "done"
    /\ body.start_node.element_id = Val("4:n:10") /\ body.end_node.element_id = Val("4:n:20")
    /\ Len(Queries) = 1
    /\ Queries[1].arg.params = <<<<"start_node_element_id", Parsed(Val("4:n:10"))>>>>
    /\ Len(call.results[1]) = 2 /\ ret = Val("n1")

\* C16: rel.id, rel._start_node_id and rel._end_node_id return int() of the
\* element identifier when it is integer-coercible and raise the migration
\* error, a ValueError carrying ELEMENT_ID_MIGRATION_NOTICE, in every other
\* state of the facet: never set, None, a non-numeric string.
C16_LegacyIdOrMigrationError ==
    (HoldsEntity /\ call.op = "id") =>
        LET facet == call.results
            coercible == /\ facet \in DOMAIN inst
                         /\ inst[facet].t = "val"
                         /\ inst[facet].v \in {"10", "20", "30"}
        IN IF coercible THEN ret.t = "val" /\ ret.v = IntOfNumeral[inst[facet].v]
           ELSE ret = Raise("ValueError", ELEMENT_ID_MIGRATION_NOTICE)

Saving == HoldsEntity /\ call.op = "save"

\* what deflate returns for the entity's __properties__
DeflatedProperties == PropertyManagerDeflate(mro, Properties(inst), FALSE)

\* C17: a save() whose deflate succeeds has at most one request in flight at
\* any time, makes its descriptor calls before any request, issues no second
\* cypher_query and, unless the collaborator fails it before, exactly one; the
\* statement matches the edge r by the id function applied to r against $self,
\* which is bound to the parsed element identifier, and has one SET clause
\* r.key = $key per key of the deflated mapping, in its order; the finished
\* call returns self.
C17_SaveIssuesOneUpdate ==
    (Saving /\ DeflatedProperties.ret.t = "dict") =>
        LET d == DeflatedProperties
            keys == [i \in 1..Len(d.ret.items) |-> d.ret.items[i][1]]
        IN /\ Len(call.pending) <= 1
           /\ SubSeq(effects, 1, Len(d.effects)) = d.effects
           /\ \A i \in (Len(d.effects) + 1)..Len(effects) : IsRequest(effects[i])
           /\ Len(Queries) <= 1
           /\ ReachedQuery => Len(Queries) = 1
           /\ Len(Queries) = 1 =>
                 LET q == Queries[1].arg
                 IN /\ q.query.match = "()-[r]->()"
                    /\ q.query.where[2] = "r" /\ q.query.where[3] = "self"
                    /\ q.query.where[1] \in IdMethods
                    /\ Get(q.params, "self") = Parsed(ElementIdOf(inst, FacetOfElementId))
                    /\ q.query.set = [i \in 1..Len(keys) |-> <<"r." \o keys[i], keys[i]>>]
           /\ (call.pc = "done" /\ Unfailed) => ret = [t |-> "self"]

\* an inflated entity with two wire fields was saved by one statement with two
\* SET clauses
C17_Witness ==
    /\ Saving /\ FromRawEdge /\ call.pc = "done" /\ ret = [t |-> "self"]
    /\ Len(Queries) = 1 /\ Len(Queries[1].arg.query.set) = 2
    /\ inst[FacetOfElementId] = Val("5:r:30")

\* C18: when deflate of the entity's __properties__ raises during save(), the
\* call ends with that error and has handed no request to the collaborator.
C18_FailedDeflateAbortsSave ==
    (Saving /\ DeflatedProperties.ret.t = "raise") =>
        /\ call.pc = "done" /\ call.pending = <<>>
        /\ ret = DeflatedProperties.ret
        /\ \A i \in 1..Len(effects) : ~IsRequest(effects[i])

\* save() of an inflated entity whose required property the edge did not carry
\* was aborted
C18_Witness ==
    /\ Saving /\ FromRawEdge
    /\ ret.t = "raise" /\ ret.exc = "RequiredProperty"
    /\ effects = <<>>

----------------------------------------------------------------------------
(* The slot of a property that got neither keyword nor default *)

\* the properties without default for which the construction got no keyword
WithoutKeywordAndDefault ==
    {n \in PropertyNames : ~PropertyOf(n).has_default /\ n \notin DOMAIN call.kwargs}

\* the instance the same construction gives when n is passed as None
GivenNone(n) == PropertyManagerInit(mro, Put(call.kwargs, n, None), <<>>).self

DeflatedInstance(self, skip_empty) == PropertyManagerDeflate(mro, Properties(self), skip_empty).ret

\* C19 as stated: the slot of a property that got no keyword and has no
\* default holds a marker other than None, and the instance differs from the
\* one given None for that property.
C19_UnsetMarkerDistinctFromNone ==
    Constructed =>
        \A n \in WithoutKeywordAndDefault : inst[n] # None /\ inst # GivenNone(n)

\* C19 amended: the slot of a property that got no keyword and has no default
\* holds None; the instance equals the one given None for that property and
\* the one on which None is assigned to it afterwards, and deflate does not
\* tell them apart.
C19_UnsetIsNone ==
    Constructed =>
        \A n \in WithoutKeywordAndDefault :
            /\ inst[n] = None
            /\ inst = GivenNone(n)
            /\ inst = Put(inst, n, None)
            /\ \A skip_empty \in Booleans :
                  DeflatedInstance(inst, skip_empty) = DeflatedInstance(GivenNone(n), skip_empty)

\* of two properties without default one got no keyword and the other None:
\* both slots hold None
C19_Witness ==
    /\ Constructed
    /\ \E n \in WithoutKeywordAndDefault, o \in PropertyNames :
          /\ ~PropertyOf(o).has_default
          /\ o \in DOMAIN call.kwargs /\ call.kwargs[o] = None
          /\ inst[n] = None /\ inst[o] = None

----------------------------------------------------------------------------
(* The metaclass guard and the order of the class body *)

\* the class body with its entries in the order p, a permutation of its positions
Reordered(dct, p) == [i \in 1..Len(dct) |-> dct[p[i]]]

\* C21: for any class body and any other ordering of its attributes, the class
\* statement has the same outcome (accepted or rejected), leaves every
\* descriptor of the body in the same binding state (name and owner bound, or
\* not bound) with the same number of setup() calls, and on an accepted
\* definition has called setup() exactly once on each Property that has one.
C21_GuardIsOrderIndependent ==
    call.op = "rel_class" =>
        /\ \A p \in Permutations(1..Len(body)) :
              LET r == RelationshipMetaNew(Reordered(body, p))
              IN /\ (r.t = "class") = (ret.t = "class")
                 /\ \A i \in 1..Len(body) : r.bound[i] = bound[p[i]]
        /\ ret.t = "class" =>
              \A i \in 1..Len(body) :
                  (IsPropertyValue(body[i].value) /\ body[i].has_setup) => bound[i].setups = 1

----------------------------------------------------------------------------
(* Schema resolution and kind filtering *)

\* the <<name, descriptor>> pairs of a resolved dict, as Python compares dicts
ItemsOf(d) == {d[i] : i \in 1..Len(d)}

\* the descriptor kinds the flags of the call enable
EnabledKinds ==
    (IF call.aliases THEN {"alias"} ELSE {})
    \cup (IF call.properties THEN {"prop"} ELSE {})
    \cup (IF call.rels THEN {"rel"} ELSE {})

\* C22: defined_properties with any combination of the flags equals
\* defined_properties with all three flags true restricted to the entries of
\* the enabled kinds; a name an ancestor declares as a property and a subclass
\* redeclares as another kind does not resolve to the ancestor's descriptor.
C22_ResolutionCommutesWithFiltering ==
    Resolved =>
        ItemsOf(ret.items) =
            {e \in ItemsOf(defined_properties(mro, TRUE, TRUE, TRUE)) : e[2].kind \in EnabledKinds}

----------------------------------------------------------------------------
(* Attribute assignment and the saved view of an instance *)

\* attribute names of the class under study: one plain, one with a leading underscore
AttrNames == {"p", PrivateName}

AttrClasses ==
    {<<NewClass(PropertyManagerClass, <<Decl(n, "attr", Descriptor("prop", 1, r, hd, db, FALSE))>>)>>
        \o BaseMro :
        n \in AttrNames, r \in Booleans, hd \in Booleans, db \in DbNames}

\* what an application assigns to an attribute
AssignedValues == {None, Val("x"), Function}

InitAttr ==
    /\ mro \in AttrClasses
    /\ call = NoCall
    /\ ret = NoValue
    /\ inst = NoInstance
    /\ effects = <<>>
    /\ body = <<>>
    /\ bound = <<>>

\* obj = cls(**kwargs)
NewInstance ==
    /\ inst = NoInstance
    /\ \E kwargs \in Dicts(AttrNames, {None, Val("x")}) :
          LET made == PropertyManagerInit(mro, kwargs, <<>>)
          IN /\ call' = [op |-> "construct", kwargs |-> kwargs]
             /\ ret' = [t |-> "instance"]
             /\ inst' = made.self
             /\ effects' = made.effects
    /\ UNCHANGED <<mro, body, bound>>

\* obj.name = value
SetAttr ==
    /\ inst # NoInstance
    /\ \E name \in AttrNames, value \in AssignedValues :
          /\ call' = [op |-> "setattr", name |-> name, value |-> value]
          /\ inst' = Put(inst, name, value)
    /\ ret' = None
    /\ effects' = <<>>
    /\ UNCHANGED <<mro, body, bound>>

\* cls.deflate(obj.__properties__)
DeflateOwn ==
    /\ inst # NoInstance
    /\ LET d == PropertyManagerDeflate(mro, Properties(inst), FALSE)
       IN /\ call' = [op |-> "deflate_properties"]
          /\ ret' = d.ret
          /\ effects' = d.effects
    /\ UNCHANGED <<mro, inst, body, bound>>

NextAttr == NewInstance \/ SetAttr \/ DeflateOwn

SpecAttr == InitAttr /\ [][NextAttr]_vars

\* C23: after construction and any assignments, deflate(obj.__properties__)
\* holds, for every resolved property whose current attribute value is not
\* None, the descriptor's deflation of that value under the wire name,
\* whatever the attribute name and whatever the value.
C23_DeflateReflectsCurrentState ==
    call.op = "deflate_properties" =>
        \A i \in 1..Len(Schema) :
            LET name == Schema[i][1]
                property == Schema[i][2]
            IN (HasAttr(inst, name) /\ inst[name] # None) =>
                  /\ ret.t = "dict"
                  /\ HasKey(ret.items, get_db_property_name(property, name))
                  /\ Get(ret.items, get_db_property_name(property, name))
                        = PropertyDeflate(property, inst[name]).value

----------------------------------------------------------------------------
(* The parameters of the update statement of save() *)

\* C24: in the parameters save() passes to cypher_query, 'self' holds the
\* parsed element identifier and every key of the deflated mapping holds its
\* deflated value, for every wire name of a property, 'self' included.
C24_ParametersKeepDeflatedValues ==
    (Saving /\ DeflatedProperties.ret.t = "dict" /\ Len(Queries) = 1) =>
        LET items == DeflatedProperties.ret.items
            params == Queries[1].arg.params
        IN /\ Get(params, "self") = Parsed(ElementIdOf(inst, FacetOfElementId))
           /\ \A i \in 1..Len(items) :
                 /\ HasKey(params, items[i][1])
                 /\ Get(params, items[i][1]) = items[i][2]

====
